---- MODULE Spec2Model ----
(***************************************************************************)
(* A model of prezmanifest.loader.load (src/prezmanifest/loader.py).       *)
(*                                                                         *)
(* One behaviour is one call of load: the output targets are checked, the  *)
(* manifest is validated and read, the nested resource loops are walked    *)
(* (one step per artifact file, one per export of the System Graph), and   *)
(* the call returns or raises.  RDF terms are strings, a triple is         *)
(* <<s, p, o>>, a quad is <<s, p, o, g>>, a Graph is a set of triples and a *)
(* Dataset a set of quads.                                                 *)
(***************************************************************************)
EXTENDS Integers, Sequences, FiniteSets, TLC

VARIABLES
    sparql_endpoint,   \* argument: None or the endpoint
    destination_file,  \* argument: None or the path of the quads file
    return_data_type,  \* argument: None, "Graph", "Dataset" or another value
    manifest,          \* the resources of the manifest, in enumeration order
    pc,                \* "start", "validate", "loop", "return", "done", "raised"
    todo,              \* the loop iterations still to run, in order
    vg,                \* the Virtual Graph accumulator (a Graph)
    vg_iri,            \* the Virtual Graph IRI, None until a catalogue is read
    store,             \* the remote store: a set of quads
    quadsFile,         \* the destination file: a sequence of written blocks
    dataset_holder,    \* the in-memory Dataset
    graph_holder,      \* the in-memory Graph
    returned,          \* what load returned
    err,               \* the error load raised
    log                \* history: alias registrations and exports, in order

vars == <<sparql_endpoint, destination_file, return_data_type, manifest, pc,
          todo, vg, vg_iri, store, quadsFile, dataset_holder, graph_holder,
          returned, err, log>>

(***************************************************************************)
(* Bounds.                                                                 *)
(***************************************************************************)
MaxResources == 2

(***************************************************************************)
(* Terms.                                                                  *)
(***************************************************************************)
None == "None"

RDF_type == "rdf:type"
DCAT_Catalog == "dcat:Catalog"
SKOS_ConceptScheme == "skos:ConceptScheme"
OWL_Ontology == "owl:Ontology"
SDO_name == "sdo:name"
DCTERMS_title == "dcterms:title"
SKOS_prefLabel == "skos:prefLabel"
MRR_CatalogueData == "mrr:CatalogueData"
MRR_ResourceData == "mrr:ResourceData"
MRR_CompleteCatalogueAndResourceLabels == "mrr:CompleteCatalogueAndResourceLabels"
MRR_IncompleteCatalogueAndResourceLabels == "mrr:IncompleteCatalogueAndResourceLabels"
OLIS_VirtualGraph == "olis:VirtualGraph"
OLIS_isAliasFor == "olis:isAliasFor"
OLIS_SystemGraph == "olis:SystemGraph"
Background == "http://background"
DefaultGraphId == "urn:x-rdflib:default"

\* str(x) of an IRI: a plain Python string, which is not an rdflib term.
PyStr(x) == "str(" \o x \o ")"

(***************************************************************************)
(* The files a manifest can point at.  A .ttl file is the sequence of its  *)
(* triples in store order; a .trig file is the set of its quads, those of  *)
(* the default graph under DefaultGraphId.                                 *)
(***************************************************************************)
Ttl(ts) == [ext |-> "ttl", triples |-> ts, quads |-> {}]
Trig(qs) == [ext |-> "trig", triples |-> <<>>, quads |-> qs]

FileNames ==
    {"cat.ttl", "catB.ttl", "cat-noname.ttl", "nocat.ttl", "vocab.ttl",
     "onto.ttl", "both.ttl", "noid.ttl", "labels1.ttl", "labels2.ttl",
     "labels3.ttl", "named.trig", "default.trig", "readme.txt",
     "collide.ttl"}

FileData(f) ==
    CASE f = "cat.ttl" ->
           Ttl(<< <<"urn:cat1", RDF_type, DCAT_Catalog>>,
                  <<"urn:cat1", DCTERMS_title, "Cat One">>,
                  <<"urn:cat1", SDO_name, "Catalogue One">> >>)
      [] f = "catB.ttl" ->
           Ttl(<< <<"urn:cat2", SKOS_prefLabel, "Cat Two">>,
                  <<"urn:cat2", RDF_type, DCAT_Catalog>> >>)
      [] f = "cat-noname.ttl" ->
           Ttl(<< <<"urn:cat3", RDF_type, DCAT_Catalog>> >>)
      [] f = "nocat.ttl" ->
           Ttl(<< <<"urn:x", RDF_type, SKOS_ConceptScheme>> >>)
      [] f = "vocab.ttl" ->
           Ttl(<< <<"urn:cs1", RDF_type, SKOS_ConceptScheme>>,
                  <<"urn:cs1", SKOS_prefLabel, "Scheme One">> >>)
      [] f = "onto.ttl" ->
           Ttl(<< <<"urn:o1", RDF_type, OWL_Ontology>> >>)
      [] f = "both.ttl" ->
           Ttl(<< <<"urn:o2", RDF_type, OWL_Ontology>>,
                  <<"urn:cs2", RDF_type, SKOS_ConceptScheme>> >>)
      [] f = "noid.ttl" ->
           Ttl(<< <<"urn:n1", SKOS_prefLabel, "No identity">> >>)
      [] f = "collide.ttl" ->
           Ttl(<< <<"urn:cat1-catalogue", RDF_type, SKOS_ConceptScheme>> >>)
      [] f = "labels1.ttl" ->
           Ttl(<< <<"urn:cs1", SDO_name, "label 1">> >>)
      [] f = "labels2.ttl" ->
           Ttl(<< <<"urn:o1", SDO_name, "label 2">> >>)
      [] f = "labels3.ttl" ->
           Ttl(<< <<"urn:cs2", SDO_name, "label 3">>,
                  <<"urn:cs1", SDO_name, "label 1">> >>)
      [] f = "named.trig" ->
           Trig({ <<"urn:a", SDO_name, "in g1", "urn:g1">>,
                  <<"urn:b", SDO_name, "in g2", "urn:g2">>,
                  <<"urn:c", SDO_name, "in default", DefaultGraphId>> })
      [] f = "default.trig" ->
           Trig({ <<"urn:d", SDO_name, "only default", DefaultGraphId>> })
      [] OTHER -> [ext |-> "txt", triples |-> <<>>, quads |-> {}]

(***************************************************************************)
(* The resources a manifest can declare: the roles (prof:hasRole) and the  *)
(* artifacts (prof:hasArtifact) of each.  An artifact is the files it      *)
(* resolves to, or cannot be resolved (found = FALSE).                     *)
(***************************************************************************)
Artifact(fs) == [found |-> TRUE, files |-> fs]
Unresolvable == [found |-> FALSE, files |-> <<>>]
Resource(n, rs, as) == [name |-> n, roles |-> rs, artifacts |-> as]

ResourcePool ==
    { Resource("cat", <<MRR_CatalogueData>>, <<Artifact(<<"cat.ttl">>)>>),
      Resource("cat2art", <<MRR_CatalogueData>>,
               <<Artifact(<<"cat.ttl">>), Artifact(<<"catB.ttl">>)>>),
      Resource("cat-noname", <<MRR_CatalogueData>>, <<Artifact(<<"cat-noname.ttl">>)>>),
      Resource("nocat", <<MRR_CatalogueData>>, <<Artifact(<<"nocat.ttl">>)>>),
      Resource("cat-missing", <<MRR_CatalogueData>>, <<Unresolvable>>),
      Resource("vocabs", <<MRR_ResourceData>>, <<Artifact(<<"vocab.ttl", "onto.ttl">>)>>),
      Resource("both", <<MRR_ResourceData>>, <<Artifact(<<"both.ttl">>)>>),
      Resource("noid", <<MRR_ResourceData>>, <<Artifact(<<"vocab.ttl", "noid.ttl">>)>>),
      Resource("collide", <<MRR_ResourceData>>, <<Artifact(<<"collide.ttl">>)>>),
      Resource("labels", <<MRR_CompleteCatalogueAndResourceLabels>>,
               <<Artifact(<<"labels1.ttl", "labels2.ttl">>)>>),
      Resource("labels3", <<MRR_IncompleteCatalogueAndResourceLabels>>,
               <<Artifact(<<"labels3.ttl">>)>>),
      Resource("trig", <<MRR_ResourceData>>, <<Artifact(<<"named.trig">>)>>),
      Resource("trigdef", <<MRR_ResourceData>>,
               <<Artifact(<<"default.trig", "readme.txt">>)>>),
      Resource("missing", <<MRR_ResourceData>>, <<Unresolvable>>) }

\* The enumerations manifest_graph.subject_objects(PROF.hasResource) can
\* give: the resources of a manifest are distinct, their order is the
\* store's.
Manifests ==
    { m \in UNION { [1..n -> ResourcePool] : n \in 0..MaxResources } :
        \A i, j \in DOMAIN m : i # j => m[i] # m[j] }

(***************************************************************************)
(* rdflib: Graph.value, Graph.add, Dataset.graphs.                         *)
(***************************************************************************)
Range(seq) == { seq[i] : i \in DOMAIN seq }

RECURSIVE Concat(_)
Concat(ss) == IF ss = <<>> THEN <<>> ELSE Head(ss) \o Concat(Tail(ss))

\* Graph.value(predicate=p, object=o): the first matching subject in store
\* order, None when there is none.
RECURSIVE SubjectValue(_, _, _)
SubjectValue(ts, p, o) ==
    IF ts = <<>> THEN None
    ELSE IF Head(ts)[2] = p /\ Head(ts)[3] = o THEN Head(ts)[1]
    ELSE SubjectValue(Tail(ts), p, o)

\* Graph.value(subject=s, predicate=p): the first matching object.
RECURSIVE ObjectValue(_, _, _)
ObjectValue(ts, s, p) ==
    IF ts = <<>> THEN None
    ELSE IF Head(ts)[1] = s /\ Head(ts)[2] = p THEN Head(ts)[3]
    ELSE ObjectValue(Tail(ts), s, p)

\* Python's "a or b" on values that are None or truthy.
PyOr(a, b) == IF a # None THEN a ELSE b

\* Graph.value(subject=s, predicate=SDO.name | DCTERMS.title | SKOS.prefLabel):
\* an alternative path yields the matches of its first member first.
NameValue(ts, s) ==
    PyOr(ObjectValue(ts, s, SDO_name),
         PyOr(ObjectValue(ts, s, DCTERMS_title), ObjectValue(ts, s, SKOS_prefLabel)))

\* Graph.add asserts that each member of the triple is an rdflib term: None
\* and a plain Python string are not.
PlainStrings ==
    { PyStr(t[1]) : t \in UNION { Range(FileData(f).triples) : f \in FileNames } }

IsNode(x) == x # None /\ x \notin PlainStrings

\* Dataset.graphs(): the identifiers of the named graphs, the default graph
\* left out as the loops of the loader leave it out.
NamedGraphs(d) == { q[4] : q \in d } \ {DefaultGraphId}

GraphOf(d, g) == { <<q[1], q[2], q[3]>> : q \in { x \in d : x[4] = g } }

(***************************************************************************)
(* kurra: make_dataset, export_quads, upload.                              *)
(***************************************************************************)
make_dataset(data, iri) == { <<t[1], t[2], t[3], iri>> : t \in data }

\* export_quads writes one more block of quads to the destination file.
export_quads(dataset, file) == Append(file, dataset)

\* upload adds to the named graph when append is set and replaces the named
\* graph otherwise.
upload(st, data, iri, append) ==
    IF append THEN st \cup make_dataset(data, iri)
    ELSE { q \in st : q[4] # iri } \cup make_dataset(data, iri)

(***************************************************************************)
(* load._export.  S is the state of the four sinks; io says whether the    *)
(* file write or the upload succeeds and, for a Dataset sent to the        *)
(* endpoint, which of its graphs were uploaded before the one that failed. *)
(* The result: the error raised ("none" when none), the sinks afterwards,  *)
(* and whether the data reached a sink.                                    *)
(***************************************************************************)
AsGraph(ts) == [type |-> "Graph", content |-> ts]
AsDataset(qs) == [type |-> "Dataset", content |-> qs]

Sinks == [store |-> store, quadsFile |-> quadsFile,
          dataset_holder |-> dataset_holder, graph_holder |-> graph_holder]

Exported(S, e, d) == [raised |-> e, S |-> S, delivered |-> d]

\* The Graph branch.
ExportGraph(data, iri, ep, df, rdt, append, S, io) ==
    IF iri = None THEN Exported(S, "ValueError", FALSE)
    ELSE IF df # None THEN
        IF io.ok
        THEN Exported([S EXCEPT !.quadsFile = export_quads(make_dataset(data, iri), @)],
                      "none", TRUE)
        ELSE Exported(S, "IOError", FALSE)
    ELSE IF ep # None THEN
        IF io.ok
        THEN Exported([S EXCEPT !.store = upload(@, data, iri, append)], "none", TRUE)
        ELSE Exported(S, "IOError", FALSE)
    ELSE IF rdt = "Dataset" THEN
        Exported([S EXCEPT !.dataset_holder = @ \cup make_dataset(data, iri)], "none", TRUE)
    ELSE IF rdt = "Graph" THEN
        Exported([S EXCEPT !.graph_holder = @ \cup data], "none", TRUE)
    ELSE Exported(S, "ValueError", FALSE)

\* for g in data.graphs(): _export(g, g.identifier, sparql_endpoint, None, None)
RECURSIVE ExportEach(_, _, _, _)
ExportEach(ids, d, ep, S) ==
    IF ids = {} THEN S
    ELSE LET g == CHOOSE x \in ids : TRUE
         IN  ExportEach(ids \ {g}, d, ep,
                        ExportGraph(GraphOf(d, g), g, ep, None, None, FALSE, S,
                                    [ok |-> TRUE, done |-> {}]).S)

_export(data, iri, ep, df, rdt, append, S, io) ==
    IF data.type = "Dataset" THEN
        IF iri # None THEN Exported(S, "ValueError", FALSE)
        ELSE IF df # None THEN
            IF io.ok
            THEN Exported([S EXCEPT !.quadsFile = export_quads(data.content, @)],
                          "none", TRUE)
            ELSE Exported(S, "IOError", FALSE)
        ELSE IF ep # None THEN
            Exported(ExportEach(io.done, data.content, ep, S),
                     IF io.done = NamedGraphs(data.content) THEN "none" ELSE "IOError",
                     io.done # {})
        ELSE Exported(S, "none", FALSE)  \* the returned value is dropped by the caller
    ELSE ExportGraph(data.content, iri, ep, df, rdt, append, S, io)

\* What the sink collaborator can do with one export: succeed, or fail (a
\* Dataset sent to the endpoint fails after some of its graphs went up).
IOOutcomes(data) ==
    LET named == IF data.type = "Dataset" THEN NamedGraphs(data.content) ELSE {}
    IN  { [ok |-> TRUE, done |-> named] }
        \cup { [ok |-> FALSE, done |-> s] : s \in (SUBSET named) \ {named} }
        \cup (IF named = {} THEN { [ok |-> FALSE, done |-> {}] } ELSE {})

(***************************************************************************)
(* The loop nest of load, unrolled: for each resource of the manifest, the *)
(* artifacts of its CatalogueData roles, then every file of every          *)
(* non-catalogue role of every resource, then the System Graph.            *)
(***************************************************************************)
Step(k, r, a, f) == [kind |-> k, role |-> r, artifact |-> a, file |-> f]

NonCatalogueRoles ==
    {MRR_CompleteCatalogueAndResourceLabels,
     MRR_IncompleteCatalogueAndResourceLabels,
     MRR_ResourceData}

\* for role ...: if role == MRR.CatalogueData: for artifact ...
CatalogueSteps(o) ==
    Concat([k \in 1..Len(o.roles) |->
        IF o.roles[k] = MRR_CatalogueData
        THEN [a \in 1..Len(o.artifacts) |->
                 Step("catalogue", o.roles[k], o.artifacts[a], "-")]
        ELSE <<>>])

\* for f in get_files_from_artifact(manifest, artifact)
FileSteps(role, artifact) ==
    IF ~artifact.found THEN <<Step("resolve", role, artifact, "-")>>
    ELSE [n \in 1..Len(artifact.files) |->
             Step("file", role, artifact, artifact.files[n])]

\* for role ...: if role in [...]: for artifact ...
ResourceSteps(o) ==
    Concat([k \in 1..Len(o.roles) |->
        IF o.roles[k] \in NonCatalogueRoles
        THEN Concat([a \in 1..Len(o.artifacts) |-> FileSteps(o.roles[k], o.artifacts[a])])
        ELSE <<>>])

\* The inner "for s, o in manifest_graph.subject_objects(PROF.hasResource)".
NonCatalogueSteps(m) == Concat([j \in 1..Len(m) |-> ResourceSteps(m[j])])

SystemGraphStep == Step("system", "-", Unresolvable, "-")

\* The outer "for s, o in manifest_graph.subject_objects(PROF.hasResource)":
\* the inner loop and the export of the System Graph are in its body.
Plan(m) ==
    Concat([i \in 1..Len(m) |->
        CatalogueSteps(m[i]) \o NonCatalogueSteps(m) \o <<SystemGraphStep>>])

(***************************************************************************)
(* The state before the call.                                              *)
(***************************************************************************)
OldQuads ==
    { <<"urn:old", RDF_type, OLIS_VirtualGraph, OLIS_SystemGraph>>,
      <<"urn:old", SDO_name, "old label", Background>> }

Init ==
    /\ sparql_endpoint \in {None, "http://fuseki/ds"}
    /\ destination_file \in {None, "out.nq"}
    /\ return_data_type \in {None, "Graph", "Dataset", "Turtle"}
    /\ store \in { {}, OldQuads }
    /\ quadsFile \in { <<>>, <<OldQuads>> }
    /\ manifest = <<>>
    /\ pc = "start"
    /\ todo = <<>>
    /\ vg = {}
    /\ vg_iri = None
    /\ dataset_holder = {}
    /\ graph_holder = {}
    /\ returned = "-"
    /\ err = "none"
    /\ log = <<>>

args == <<sparql_endpoint, destination_file, return_data_type>>
sinks == <<store, quadsFile, dataset_holder, graph_holder>>

Event(e, w, r, f, is) == [ev |-> e, what |-> w, role |-> r, file |-> f, iris |-> is]

\* A slip: the error is noted and the run goes on.
Raise_Swallowed(e) ==
    /\ pc' = pc
    /\ err' = e

\* An exception leaves load: nothing after the raise runs.
Raise(e) ==
    /\ pc' = "raised"
    /\ err' = e

\* The loop body is done: on to the next iteration, or out of the loops.
Continue ==
    /\ todo' = Tail(todo)
    /\ pc' = IF Tail(todo) = <<>> THEN "return" ELSE "loop"
    /\ err' = err

SetSinks(S) ==
    /\ store' = S.store
    /\ quadsFile' = S.quadsFile
    /\ dataset_holder' = S.dataset_holder
    /\ graph_holder' = S.graph_holder

\* The number of output targets the caller gave.
Specified == Cardinality({ i \in 1..3 : args[i] # None })

(***************************************************************************)
(* The steps of load.                                                      *)
(***************************************************************************)
\* A slip: only more than one target is refused.
CheckTargets_AtMostOne ==
    /\ pc = "start"
    /\ IF Specified > 1
       THEN Raise("ValueError: exactly 1 target")
       ELSE pc' = "validate" /\ err' = err
    /\ UNCHANGED <<args, manifest, todo, vg, vg_iri, sinks, returned, log>>

\* if sum(x is not None for x in [...]) != 1: raise ValueError
CheckTargets ==
    /\ pc = "start"
    /\ IF Specified # 1
       THEN Raise("ValueError: exactly 1 target")
       ELSE pc' = "validate" /\ err' = err
    /\ UNCHANGED <<args, manifest, todo, vg, vg_iri, sinks, returned, log>>

\* A slip: validate is called after the Virtual Graph has been made and
\* exported, so a failing manifest has already reached the sink.
Validate_AfterExport ==
    /\ pc = "validate"
    /\ \E ok \in BOOLEAN, m \in Manifests :
         IF ~ok
         THEN /\ Raise("ValueError: SHACL invalid")
              /\ SetSinks(_export(AsGraph(vg), OLIS_SystemGraph, sparql_endpoint,
                                  destination_file, return_data_type, TRUE, Sinks,
                                  [ok |-> TRUE, done |-> {}]).S)
              /\ log' = Append(log, Event("send", "system", "-", "-", {OLIS_SystemGraph}))
              /\ UNCHANGED <<manifest, todo, vg, vg_iri>>
         ELSE /\ manifest' = m
              /\ todo' = Plan(m)
              /\ pc' = IF Plan(m) = <<>> THEN "return" ELSE "loop"
              /\ err' = err
              /\ vg' = {}
              /\ vg_iri' = None
              /\ UNCHANGED <<sinks, log>>
    /\ UNCHANGED <<args, returned>>

\* validate(manifest); manifest_graph = load_graph(manifest); vg = Graph();
\* vg_iri = None
Validate ==
    /\ pc = "validate"
    /\ \E ok \in BOOLEAN, m \in Manifests :
         IF ~ok
         THEN Raise("ValueError: SHACL invalid")
              /\ UNCHANGED <<manifest, todo, vg, vg_iri>>
         ELSE /\ manifest' = m
              /\ todo' = Plan(m)
              /\ pc' = IF Plan(m) = <<>> THEN "return" ELSE "loop"
              /\ err' = err
              /\ vg' = {}
              /\ vg_iri' = None
    /\ UNCHANGED <<args, sinks, returned, log>>

\* A slip: the catalogue is stored under the Virtual Graph IRI itself.
CatalogueIri_NoSuffix(iri) == iri

\* catalogue_iri = URIRef(str(vg_iri) + "-catalogue")
CatalogueIri(iri) == iri \o "-catalogue"

\* A slip: the ontology type is looked up before the concept scheme type.
ResourceIri_OntologyFirst(role, fg) ==
    IF role = MRR_ResourceData
    THEN PyOr(SubjectValue(fg, RDF_type, OWL_Ontology),
              SubjectValue(fg, RDF_type, SKOS_ConceptScheme))
    ELSE Background

\* resource_iri, as the two "if role ..." statements of the .ttl branch set it
\* (role is one of the three non-catalogue roles there).
ResourceIri(role, fg) ==
    IF role = MRR_ResourceData
    THEN PyOr(SubjectValue(fg, RDF_type, SKOS_ConceptScheme),
              SubjectValue(fg, RDF_type, OWL_Ontology))
    ELSE Background

\* The body of "for artifact in manifest_graph.objects(o, PROF.hasArtifact)"
\* under role == MRR.CatalogueData.
LoadCatalogue ==
    /\ pc = "loop"
    /\ Head(todo).kind = "catalogue"
    /\ LET artifact == Head(todo).artifact
       IN  IF ~artifact.found \/ Len(artifact.files) # 1
           THEN \* load_graph cannot read the path
                /\ Raise("ArtifactNotFound")
                /\ UNCHANGED <<todo, vg, vg_iri, sinks, log>>
           ELSE
           LET f == artifact.files[1]
               c == FileData(f).triples
               iri == SubjectValue(c, RDF_type, DCAT_Catalog)
               catalogue_iri == CatalogueIri(iri)
               vg_name == PyOr(NameValue(c, iri), PyStr(iri))
               vg2 == vg \cup { <<iri, RDF_type, OLIS_VirtualGraph>>,
                                <<iri, OLIS_isAliasFor, catalogue_iri>> }
               registered == Append(log, Event("alias", "catalogue", MRR_CatalogueData, f, {catalogue_iri}))
           IN  /\ vg_iri' = iri
               /\ IF iri = None
                  THEN /\ Raise("ValueError: no Catalog")
                       /\ UNCHANGED <<todo, vg, sinks, log>>
                  ELSE IF ~IsNode(vg_name)
                  THEN \* vg.add((vg_iri, SDO.name, vg_name)) fails its assertion
                       /\ Raise("AssertionError")
                       /\ vg' = vg2
                       /\ log' = registered
                       /\ UNCHANGED <<todo, sinks>>
                  ELSE
                  /\ vg' = vg2 \cup { <<iri, SDO_name, vg_name>> }
                  /\ \E io \in IOOutcomes(AsGraph(Range(c))) :
                       LET x == _export(AsGraph(Range(c)), catalogue_iri, sparql_endpoint,
                                        destination_file, return_data_type, FALSE, Sinks, io)
                       IN  /\ SetSinks(x.S)
                           /\ IF x.raised # "none"
                              THEN Raise(x.raised) /\ log' = registered /\ todo' = todo
                              ELSE /\ Continue
                                   /\ log' = Append(registered,
                                          Event("send", "catalogue", MRR_CatalogueData, f, {catalogue_iri}))
    /\ UNCHANGED <<args, manifest, returned>>

\* get_files_from_artifact raises: the artifact cannot be resolved.
ResolveArtifact ==
    /\ pc = "loop"
    /\ Head(todo).kind = "resolve"
    /\ Raise("ArtifactNotFound")
    /\ UNCHANGED <<args, manifest, todo, vg, vg_iri, sinks, returned, log>>

\* if str(f.name).endswith(".ttl"): ...
LoadTtl ==
    /\ pc = "loop"
    /\ Head(todo).kind = "file"
    /\ FileData(Head(todo).file).ext = "ttl"
    /\ LET f == Head(todo).file
           role == Head(todo).role
           fg == FileData(f).triples
           resource_iri == ResourceIri(role, fg)
           registered == Append(log, Event("alias", "resource", role, f, {resource_iri}))
       IN  IF resource_iri = None
           THEN /\ Raise("ValueError: no Resource IRI")
                /\ UNCHANGED <<todo, vg, sinks, log>>
           ELSE IF ~IsNode(vg_iri)
           THEN \* vg.add((vg_iri, OLIS.isAliasFor, resource_iri)) fails its assertion
                /\ Raise("AssertionError")
                /\ UNCHANGED <<todo, vg, sinks, log>>
           ELSE
           /\ vg' = vg \cup { <<vg_iri, OLIS_isAliasFor, resource_iri>> }
           /\ \E io \in IOOutcomes(AsGraph(Range(fg))) :
                LET x == _export(AsGraph(Range(fg)), resource_iri, sparql_endpoint,
                                 destination_file, return_data_type, FALSE, Sinks, io)
                IN  /\ SetSinks(x.S)
                    /\ IF x.raised # "none"
                       THEN Raise(x.raised) /\ log' = registered /\ todo' = todo
                       ELSE /\ Continue
                            /\ log' = Append(registered,
                                   Event("send", "resource", role, f, {resource_iri}))
    /\ UNCHANGED <<args, manifest, vg_iri, returned>>

\* elif str(f.name).endswith(".trig"): ...
LoadTrig ==
    /\ pc = "loop"
    /\ Head(todo).kind = "file"
    /\ FileData(Head(todo).file).ext = "trig"
    /\ LET f == Head(todo).file
           role == Head(todo).role
           d == FileData(f).quads
           named == NamedGraphs(d)
           registered == IF named = {} THEN log
                         ELSE Append(log, Event("alias", "resource", role, f, named))
       IN  IF named # {} /\ ~IsNode(vg_iri)
           THEN \* vg.add((vg_iri, OLIS.isAliasFor, g.identifier)) fails its assertion
                /\ Raise("AssertionError")
                /\ UNCHANGED <<todo, vg, sinks, log>>
           ELSE
           /\ vg' = vg \cup { <<vg_iri, OLIS_isAliasFor, g>> : g \in named }
           /\ \E io \in IOOutcomes(AsDataset(d)) :
                LET x == _export(AsDataset(d), None, sparql_endpoint,
                                 destination_file, return_data_type, FALSE, Sinks, io)
                IN  /\ SetSinks(x.S)
                    /\ IF x.raised # "none"
                       THEN Raise(x.raised) /\ log' = registered /\ todo' = todo
                       ELSE /\ Continue
                            /\ log' = IF x.delivered
                                      THEN Append(registered, Event("send", "resource", role, f,
                                               IF destination_file # None
                                               THEN { q[4] : q \in d } ELSE named))
                                      ELSE registered
    /\ UNCHANGED <<args, manifest, vg_iri, returned>>

\* A file that ends with neither .ttl nor .trig is passed over.
SkipFile ==
    /\ pc = "loop"
    /\ Head(todo).kind = "file"
    /\ FileData(Head(todo).file).ext \notin {"ttl", "trig"}
    /\ Continue
    /\ UNCHANGED <<args, manifest, vg, vg_iri, sinks, returned, log>>

\* A slip: the System Graph is sent like the other graphs, append unset.
ExportSystemGraph_NoAppend ==
    /\ pc = "loop"
    /\ Head(todo).kind = "system"
    /\ \E io \in IOOutcomes(AsGraph(vg)) :
         LET x == _export(AsGraph(vg), OLIS_SystemGraph, sparql_endpoint,
                          destination_file, return_data_type, FALSE, Sinks, io)
         IN  /\ SetSinks(x.S)
             /\ IF x.raised # "none"
                THEN Raise(x.raised) /\ log' = log /\ todo' = todo
                ELSE /\ Continue
                     /\ log' = Append(log, Event("send", "system", "-", "-", {OLIS_SystemGraph}))
    /\ UNCHANGED <<args, manifest, vg, vg_iri, returned>>

\* _export(vg, OLIS.SystemGraph, ..., append=True)
ExportSystemGraph ==
    /\ pc = "loop"
    /\ Head(todo).kind = "system"
    /\ \E io \in IOOutcomes(AsGraph(vg)) :
         LET x == _export(AsGraph(vg), OLIS_SystemGraph, sparql_endpoint,
                          destination_file, return_data_type, TRUE, Sinks, io)
         IN  /\ SetSinks(x.S)
             /\ IF x.raised # "none"
                THEN Raise(x.raised) /\ log' = log /\ todo' = todo
                ELSE /\ Continue
                     /\ log' = Append(log, Event("send", "system", "-", "-", {OLIS_SystemGraph}))
    /\ UNCHANGED <<args, manifest, vg, vg_iri, returned>>

\* if return_data_type == "Dataset": return dataset_holder ...
Return ==
    /\ pc = "return"
    /\ IF return_data_type = "Dataset"
       THEN pc' = "done" /\ returned' = "dataset_holder" /\ err' = err
       ELSE IF return_data_type = "Graph"
       THEN pc' = "done" /\ returned' = "graph_holder" /\ err' = err
       ELSE IF return_data_type = None
       THEN pc' = "done" /\ returned' = "nothing" /\ err' = err
       ELSE Raise("ValueError: return_data_type") /\ returned' = returned
    /\ UNCHANGED <<args, manifest, todo, vg, vg_iri, sinks, log>>

Next ==
    \/ CheckTargets
    \/ Validate
    \/ LoadCatalogue
    \/ ResolveArtifact
    \/ LoadTtl
    \/ LoadTrig
    \/ SkipFile
    \/ ExportSystemGraph
    \/ Return

Spec == Init /\ [][Next]_vars

(***************************************************************************)
(* Vocabulary of the properties.                                           *)
(***************************************************************************)
\* The manifest declares a resource with role CatalogueData.
DeclaresCatalogue(m) ==
    \E i \in DOMAIN m : MRR_CatalogueData \in Range(m[i].roles)

\* The files of the non-catalogue roles of the manifest.
RoleFiles(m, roles) ==
    { st.file : st \in { x \in Range(NonCatalogueSteps(m)) :
                           x.kind = "file" /\ x.role \in roles } }

\* The positions of the log where a graph of file f was sent.
SendsOf(f) == { k \in DOMAIN log : log[k].ev = "send" /\ log[k].file = f }

SystemSends == { k \in DOMAIN log : log[k].ev = "send" /\ log[k].what = "system" }

CatalogueSends == { k \in DOMAIN log : log[k].ev = "send" /\ log[k].what = "catalogue" }

\* The triples the selected sink holds under identity g (the in-memory
\* Graph keeps no identities: all its triples).
SinkContent(g) ==
    IF destination_file # None
    THEN UNION { GraphOf(quadsFile[k], g) : k \in DOMAIN quadsFile }
    ELSE IF sparql_endpoint # None THEN GraphOf(store, g)
    ELSE IF return_data_type = "Dataset" THEN GraphOf(dataset_holder, g)
    ELSE graph_holder

(***************************************************************************)
(* C1.  When the manifest declares a CatalogueData resource, no alias is   *)
(* registered and no graph is sent for a non-catalogue resource before the *)
(* catalogue graph has been sent, wherever the catalogue resource stands   *)
(* in the enumeration.                                                     *)
(***************************************************************************)
C1_CatalogueProcessedFirst ==
    DeclaresCatalogue(manifest) =>
        \A k \in DOMAIN log :
            log[k].what = "resource" => \E j \in CatalogueSends : j < k

(***************************************************************************)
(* C2.  In a successful run (of a manifest with at least one resource) the *)
(* System Graph is sent exactly once, and nothing is registered or sent    *)
(* after it.                                                               *)
(***************************************************************************)
C2_SystemGraphSentOnceAtEnd ==
    (pc = "done" /\ manifest # <<>>) =>
        /\ Cardinality(SystemSends) = 1
        /\ Len(log) \in SystemSends

(***************************************************************************)
(* C3.  In a successful run the graph of each .ttl file of a non-catalogue *)
(* resource is sent exactly once.                                          *)
(***************************************************************************)
C3_EachGraphSentOnce ==
    pc = "done" =>
        \A f \in RoleFiles(manifest, NonCatalogueRoles) :
            FileData(f).ext = "ttl" => Cardinality(SendsOf(f)) = 1

(***************************************************************************)
(* C4.  After a successful run of a manifest with two or more label files, *)
(* the selected sink holds, under the background identity, the triples of  *)
(* every label file.                                                       *)
(***************************************************************************)
LabelRoles ==
    {MRR_CompleteCatalogueAndResourceLabels, MRR_IncompleteCatalogueAndResourceLabels}

LabelFiles(m) == { f \in RoleFiles(m, LabelRoles) : FileData(f).ext = "ttl" }

C4_BackgroundHoldsAllLabels ==
    (pc = "done" /\ Cardinality(LabelFiles(manifest)) >= 2) =>
        \A f \in LabelFiles(manifest) :
            Range(FileData(f).triples) \subseteq SinkContent(Background)

(***************************************************************************)
(* C5.  After a successful run of a manifest with exactly one              *)
(* CatalogueData resource, the System Graph holds exactly one type         *)
(* assertion, exactly one name triple, and exactly one alias triple for    *)
(* each named graph sent in the run.                                       *)
(***************************************************************************)
CatalogueResources(m) ==
    { i \in DOMAIN m : MRR_CatalogueData \in Range(m[i].roles) }

\* The identities under which a catalogue or resource graph was sent.
ProducedGraphs ==
    UNION { log[k].iris : k \in { j \in DOMAIN log :
                log[j].ev = "send" /\ log[j].what # "system" } }
        \ {DefaultGraphId}

C5_OneTypeOneNameOneAliasEach ==
    (pc = "done" /\ Cardinality(CatalogueResources(manifest)) = 1) =>
        /\ Cardinality({ t \in vg : t[2] = RDF_type /\ t[3] = OLIS_VirtualGraph }) = 1
        /\ Cardinality({ t \in vg : t[2] = SDO_name }) = 1
        /\ \A g \in ProducedGraphs :
               Cardinality({ t \in vg : t[2] = OLIS_isAliasFor /\ t[3] = g }) = 1

(***************************************************************************)
(* C6.  With no CatalogueData resource and at least one recognized file of *)
(* a non-catalogue resource, load does not complete: no alias with an      *)
(* undefined subject enters the accumulator and nothing is sent.           *)
(***************************************************************************)
RecognizedFiles(m) ==
    { f \in RoleFiles(m, NonCatalogueRoles) : FileData(f).ext \in {"ttl", "trig"} }

C6_NoCatalogueFailsFast ==
    (~DeclaresCatalogue(manifest) /\ RecognizedFiles(manifest) # {}) =>
        /\ pc \notin {"return", "done"}
        /\ \A t \in vg : t[1] # None
        /\ \A k \in DOMAIN log : log[k].ev # "send"

(***************************************************************************)
(* C7.  With zero, two or three output targets load raises at once: the    *)
(* manifest is not validated and no sink is touched.  With exactly one,    *)
(* no step of the run changes a sink other than the selected one, and the  *)
(* graph of each .ttl file it reports as sent is in the selected sink      *)
(* under the identity it was sent to.                                      *)
(***************************************************************************)
\* The last event of the log after a step that added a "send" event.
Sent(e) ==
    /\ Len(log') > Len(log)
    /\ e = log'[Len(log')]
    /\ e.ev = "send"

C7_Step ==
    /\ Specified # 1 =>
          /\ pc = "start"
          /\ pc' = "raised"
          /\ err' = "ValueError: exactly 1 target"
          /\ UNCHANGED <<manifest, todo, vg, sinks, log>>
    /\ (Specified = 1 /\ destination_file # None) =>
          UNCHANGED <<store, dataset_holder, graph_holder>>
    /\ (Specified = 1 /\ sparql_endpoint # None) =>
          UNCHANGED <<quadsFile, dataset_holder, graph_holder>>
    /\ (Specified = 1 /\ return_data_type = "Dataset") =>
          UNCHANGED <<store, quadsFile, graph_holder>>
    /\ (Specified = 1 /\ return_data_type = "Graph") =>
          UNCHANGED <<store, quadsFile, dataset_holder>>
    /\ (Specified = 1 /\ return_data_type \notin {None, "Graph", "Dataset"}) =>
          UNCHANGED sinks
    /\ \A e \in { log'[k] : k \in DOMAIN log' } :
          (Sent(e) /\ e.what # "system" /\ FileData(e.file).ext = "ttl") =>
              \A g \in e.iris :
                  Range(FileData(e.file).triples) \subseteq SinkContent(g)'

\* C7: every step of load keeps to the rule of the output targets above.
C7_ExactlyOneTarget == [][C7_Step]_vars

C7_Witness ==
    /\ Specified = 1
    /\ sparql_endpoint # None
    /\ pc = "done"
    /\ \E k \in DOMAIN log : log[k].ev = "send" /\ log[k].what = "resource"
    /\ quadsFile # <<>>

(***************************************************************************)
(* C8.  A ResourceData .ttl file is registered and sent under the subject  *)
(* typed skos:ConceptScheme if it has one, otherwise under the subject     *)
(* typed owl:Ontology.  When it has neither, the step raises and leaves    *)
(* the accumulator, the sinks and the log as they were, also after earlier *)
(* files were sent.                                                        *)
(***************************************************************************)
TypedSubjects(f, class) ==
    { t[1] : t \in { x \in Range(FileData(f).triples) :
                       x[2] = RDF_type /\ x[3] = class } }

HasNoIdentity(f) ==
    TypedSubjects(f, SKOS_ConceptScheme) \cup TypedSubjects(f, OWL_Ontology) = {}

AtResourceDataTtl ==
    /\ pc = "loop"
    /\ Head(todo).kind = "file"
    /\ Head(todo).role = MRR_ResourceData
    /\ FileData(Head(todo).file).ext = "ttl"

C8_Identity ==
    \A k \in DOMAIN log :
        (log[k].role = MRR_ResourceData /\ FileData(log[k].file).ext = "ttl") =>
            \E c \in TypedSubjects(log[k].file, SKOS_ConceptScheme)
                     \cup TypedSubjects(log[k].file, OWL_Ontology) :
                /\ log[k].iris = {c}
                /\ TypedSubjects(log[k].file, SKOS_ConceptScheme) # {}
                      => c \in TypedSubjects(log[k].file, SKOS_ConceptScheme)

C8_Step ==
    (AtResourceDataTtl /\ HasNoIdentity(Head(todo).file)) =>
        /\ pc' = "raised"
        /\ err' = "ValueError: no Resource IRI"
        /\ UNCHANGED <<vg, sinks, log>>

\* C8: the identity of a ResourceData .ttl file in every state, and the raise on a file without one in every step.
C8_ResourceIdentity == []C8_Identity /\ [][C8_Step]_vars

C8_Witness ==
    /\ pc = "raised"
    /\ err = "ValueError: no Resource IRI"
    /\ \E k \in DOMAIN log :
          /\ log[k].ev = "send"
          /\ log[k].role = MRR_ResourceData
          /\ log[k].iris = {"urn:cs1"}

(***************************************************************************)
(* C9.  A catalogue file is registered and sent under C-catalogue, C a     *)
(* subject the file types dcat:Catalog, never under C; C is then the       *)
(* Virtual Graph IRI, and the accumulator, and at the end of a successful  *)
(* run the System Graph in the sink, hold (C, rdf:type, olis:VirtualGraph) *)
(* and (C, olis:isAliasFor, C-catalogue).  On a catalogue file with no     *)
(* dcat:Catalog subject the step raises with nothing registered or sent.   *)
(***************************************************************************)
VirtualGraphTriples(c) ==
    { <<c, RDF_type, OLIS_VirtualGraph>>, <<c, OLIS_isAliasFor, c \o "-catalogue">> }

CatalogueEvents == { k \in DOMAIN log : log[k].what = "catalogue" }

\* The catalogue subjects C under which the event can have been logged.
CatalogueOf(e) ==
    { c \in TypedSubjects(e.file, DCAT_Catalog) : e.iris = {c \o "-catalogue"} }

C9_Identity ==
    /\ \A k \in CatalogueEvents :
          /\ CatalogueOf(log[k]) # {}
          /\ \A c \in CatalogueOf(log[k]) : VirtualGraphTriples(c) \subseteq vg
    /\ (vg_iri # None) =>
          /\ CatalogueEvents # {}
          /\ \A k \in CatalogueEvents :
                (\A j \in CatalogueEvents : j <= k) => vg_iri \in CatalogueOf(log[k])
    /\ (pc = "done") =>
          \A k \in CatalogueSends : \A c \in CatalogueOf(log[k]) :
              VirtualGraphTriples(c) \subseteq SinkContent(OLIS_SystemGraph)

AtCatalogueFile ==
    /\ pc = "loop"
    /\ Head(todo).kind = "catalogue"
    /\ Head(todo).artifact.found
    /\ Len(Head(todo).artifact.files) = 1

C9_Step ==
    /\ (AtCatalogueFile
          /\ TypedSubjects(Head(todo).artifact.files[1], DCAT_Catalog) = {}) =>
          /\ pc' = "raised"
          /\ err' = "ValueError: no Catalog"
          /\ UNCHANGED <<vg, sinks, log>>
    /\ \A e \in { log'[k] : k \in DOMAIN log' } :
          (Sent(e) /\ e.what = "catalogue") =>
              \A c \in CatalogueOf(e) :
                  /\ Range(FileData(e.file).triples) \subseteq SinkContent(c \o "-catalogue")'
                  /\ return_data_type # "Graph" => SinkContent(c)' = SinkContent(c)

Sends(l) == { k \in DOMAIN l : l[k].ev = "send" }

IsPrefix(a, b) == Len(a) <= Len(b) /\ SubSeq(b, 1, Len(a)) = a

C10_Step ==
    /\ pc # "raised"
    /\ (err' # "none") <=> (pc' = "raised")
    /\ (pc' = "raised") =>
          /\ returned' = "-"
          /\ Sends(log') = Sends(log)
          /\ IsPrefix(quadsFile, quadsFile')
          /\ dataset_holder \subseteq dataset_holder'
          /\ graph_holder \subseteq graph_holder'
          /\ \A q \in store \ store' :
                /\ Head(todo).kind = "file"
                /\ q[4] \in NamedGraphs(FileData(Head(todo).file).quads)

\* C10: every step of load aborts at the first failure and rolls nothing back.
C10_AbortAtFirstFailure == [][C10_Step]_vars

C10_Witness ==
    /\ pc = "raised"
    /\ err = "IOError"
    /\ sparql_endpoint # None
    /\ \E k \in DOMAIN log : log[k].ev = "send" /\ log[k].what = "resource"
    /\ <<"urn:cs1", RDF_type, SKOS_ConceptScheme, "urn:cs1">> \in store
    /\ returned = "-"

(***************************************************************************)
(* C11.  No step of load removes a triple the selected sink holds under    *)
(* the System Graph identity, and a send of the System Graph leaves the    *)
(* accumulated Virtual Graph triples there.  The other sends add to what   *)
(* the quads file and the in-memory sinks hold under every identity; a     *)
(* send to the remote store leaves under its identity exactly the graph    *)
(* sent, replacing what was there.                                         *)
(***************************************************************************)
\* The identities under which some sink holds quads.
Identities(st, file, holder) ==
    { q[4] : q \in st \cup holder \cup UNION Range(file) }

C11_Step ==
    /\ SinkContent(OLIS_SystemGraph) \subseteq SinkContent(OLIS_SystemGraph)'
    /\ \A e \in { log'[k] : k \in DOMAIN log' } :
          (Sent(e) /\ e.what = "system") => vg \subseteq SinkContent(OLIS_SystemGraph)'
    /\ sparql_endpoint = None =>
          \A g \in Identities(store, quadsFile, dataset_holder) :
              SinkContent(g) \subseteq SinkContent(g)'
    /\ sparql_endpoint # None =>
          \A e \in { log'[k] : k \in DOMAIN log' } :
              (Sent(e) /\ e.what # "system") =>
                  \A g \in e.iris :
                      GraphOf(store', g) =
                          IF FileData(e.file).ext = "trig"
                          THEN GraphOf(FileData(e.file).quads, g)
                          ELSE Range(FileData(e.file).triples)

C12_CatalogueRegisteredOnce ==
    /\ Cardinality({ t \in vg : t[2] = RDF_type /\ t[3] = OLIS_VirtualGraph }) <= 1
    /\ Cardinality({ t \in vg : t[2] = SDO_name }) <= 1
    /\ Cardinality({ k \in CatalogueEvents : log[k].ev = "alias" }) <= 1
    /\ Cardinality(CatalogueSends) <= 1

(***************************************************************************)
(* C13.  No graph other than the catalogue is registered or sent under the *)
(* Virtual Graph IRI C or under the catalogue identity C-catalogue of a    *)
(* catalogue of the same run.                                              *)
(***************************************************************************)
C13_NoIdentityCollision ==
    \A k \in CatalogueEvents : \A j \in DOMAIN log :
        log[j].what # "catalogue" =>
            log[j].iris \cap (log[k].iris \cup CatalogueOf(log[k])) = {}

(***************************************************************************)
(* C14.  After a successful run, for every .trig file of the manifest:     *)
(* each of its named graphs is in the selected sink under its own identity *)
(* and is aliased by the Virtual Graph, and no triple of its default graph *)
(* is in the sink or aliased.                                              *)
(***************************************************************************)
TrigFiles(m) == { f \in RecognizedFiles(m) : FileData(f).ext = "trig" }

\* Every triple the selected sink holds, under whatever identity.
SinkTriples ==
    IF destination_file # None
    THEN { <<q[1], q[2], q[3]>> : q \in UNION Range(quadsFile) }
    ELSE IF sparql_endpoint # None THEN { <<q[1], q[2], q[3]>> : q \in store }
    ELSE IF return_data_type = "Dataset"
    THEN { <<q[1], q[2], q[3]>> : q \in dataset_holder }
    ELSE graph_holder

C14_NamedGraphsDelivered ==
    pc = "done" =>
        \A f \in TrigFiles(manifest) : \A g \in NamedGraphs(FileData(f).quads) :
            /\ GraphOf(FileData(f).quads, g) \subseteq SinkContent(g)
            /\ <<vg_iri, OLIS_isAliasFor, g>> \in vg

C14_DefaultGraphDropped ==
    pc = "done" =>
        \A f \in TrigFiles(manifest) :
            /\ GraphOf(FileData(f).quads, DefaultGraphId) \cap SinkTriples = {}
            /\ \A t \in vg : t[3] # DefaultGraphId

C14_TrigGraphs == C14_NamedGraphsDelivered /\ C14_DefaultGraphDropped

(***************************************************************************)
(* C15.  A finished in-memory run returns the holder of its mode, and that *)
(* holder has the triples of every graph of the run: of each catalogue,    *)
(* resource and label file under the identity it was processed with, of    *)
(* each named graph of each .trig file under its own identity, and of the  *)
(* Virtual Graph under the System Graph identity.  A finished run to an    *)
(* endpoint or a file returns nothing.                                     *)
(***************************************************************************)
InMemory == sparql_endpoint = None /\ destination_file = None

TtlEvents ==
    { k \in DOMAIN log : log[k].ev = "send" /\ log[k].what # "system"
                           /\ FileData(log[k].file).ext = "ttl" }

C15_ReturnsHolder ==
    pc = "done" =>
        returned = IF ~InMemory THEN "nothing"
                   ELSE IF return_data_type = "Dataset" THEN "dataset_holder"
                   ELSE "graph_holder"

C15_HolderComplete ==
    (pc = "done" /\ InMemory) =>
        /\ \A k \in TtlEvents : \A g \in log[k].iris :
               Range(FileData(log[k].file).triples) \subseteq SinkContent(g)
        /\ \A f \in TrigFiles(manifest) : \A g \in NamedGraphs(FileData(f).quads) :
               GraphOf(FileData(f).quads, g) \subseteq SinkContent(g)
        /\ vg \subseteq SinkContent(OLIS_SystemGraph)

C15_WholeResultReturned == C15_ReturnsHolder /\ C15_HolderComplete

(***************************************************************************)
(* C16.  Validation comes first: until the manifest has been validated    *)
(* nothing is loaded, registered or sent, and a run whose validation fails *)
(* ends there with the validator's error, the Virtual Graph empty and      *)
(* unsent and every sink as it was before the call.                        *)
(***************************************************************************)
ValidationFailed == err = "ValueError: SHACL invalid"

C16_NothingBefore ==
    (pc \in {"start", "validate"} \/ ValidationFailed) =>
        /\ vg = {}
        /\ vg_iri = None
        /\ log = <<>>
        /\ dataset_holder = {}
        /\ graph_holder = {}
        /\ returned = "-"

C16_Step ==
    /\ pc \in {"start", "validate"} => UNCHANGED <<vg, sinks, log>>
    /\ ValidationFailed' =>
          /\ pc = "validate"
          /\ pc' = "raised"
          /\ UNCHANGED <<manifest, todo, vg, sinks, log, returned>>

C16_ValidatedFirst == []C16_NothingBefore /\ [][C16_Step]_vars

C16_Witness ==
    /\ ValidationFailed
    /\ pc = "raised"
    /\ sparql_endpoint # None
    /\ store = OldQuads

(***************************************************************************)
(* C18.  When return_data_type is the only target and is none of "Graph",  *)
(* "Dataset" and None, a run that passed validation and has ended (all     *)
(* its artifacts being there) was ended by a ValueError and returned no    *)
(* data.                                                                   *)
(***************************************************************************)
OnlyInvalidReturnType ==
    /\ InMemory
    /\ return_data_type \notin {None, "Graph", "Dataset"}

ValueErrors ==
    {"ValueError", "ValueError: return_data_type", "ValueError: no Catalog",
     "ValueError: no Resource IRI", "ValueError: SHACL invalid",
     "ValueError: exactly 1 target"}

AllArtifactsFound(m) ==
    \A i \in DOMAIN m : \A a \in DOMAIN m[i].artifacts : m[i].artifacts[a].found

Ended == pc \in {"raised", "done"}

C18_InvalidReturnTypeRaises ==
    (OnlyInvalidReturnType /\ Ended /\ ~ValidationFailed
        /\ AllArtifactsFound(manifest)) =>
        /\ pc = "raised"
        /\ err \in ValueErrors
        /\ returned = "-"

(***************************************************************************)
(* C19.  After a successful run every graph the System Graph aliases was   *)
(* delivered in that run: it was sent to the selected sink, and a sink     *)
(* that keeps identities holds triples under that identity.                *)
(***************************************************************************)
Aliased == { t[3] : t \in { x \in vg : x[2] = OLIS_isAliasFor } }

Delivered(g) ==
    /\ \E k \in Sends(log) : g \in log[k].iris
    /\ return_data_type # "Graph" => SinkContent(g) # {}

C19_AliasesDelivered ==
    pc = "done" => \A g \in Aliased : Delivered(g)

====
